---- MODULE Spec2Model ----
(***************************************************************************)
(* A model of rastertools.py: read_geotiff, write_geotiff and              *)
(* mask_raster_with_shapefile, each as a sequential program whose steps    *)
(* are the statements of the function.  The transform arithmetic is done   *)
(* in exact rationals; pixel values are integers (and NaN in the masking   *)
(* function), with the element-type conversions modelled at their real     *)
(* widths.                                                                 *)
(***************************************************************************)
EXTENDS Integers, Sequences, FiniteSets, TLC

VARIABLES
    pc,             \* position in the running function
    error,          \* the exception that ended the call, or "none"
    \* read_geotiff
    ds,             \* the opened dataset: RasterYSize, RasterXSize, RasterCount, dtype
    stack,          \* the (rows, cols, count) uint32 array being filled
    band,           \* loop variable of read_geotiff
    readlog,        \* band numbers handed to GetRasterBand, in order
    result,         \* the array read_geotiff returns
    \* write_geotiff
    arr,            \* the array argument: dtype, shape, data
    reference,      \* the reference argument: trans, proj, refData
    arr_type,       \* the GDAL band type chosen from arr.dtype
    new_transform,  \* the rescaled transform
    rband,          \* loop variable of write_geotiff
    files,          \* the files created by driver.Create, in creation order
    \* mask_raster_with_shapefile
    raster_ds,      \* the source raster: sizes and band-1 values
    covered,        \* the pixels the shapefile's geometry covers
    nodata_value,   \* the nodata_value argument
    raster_array,   \* band 1 of the source, then its masked float32 copy
    mask_ds,        \* the scratch MEM dataset the layer is rasterized into
    mask_array,     \* the rasterized mask read back as an array
    handles,        \* the handles currently held open by the function
    opened,         \* every handle the function has opened or created
    out_ds          \* the output dataset of the masking function

readVars  == <<ds, stack, band, readlog, result>>
writeVars == <<arr, reference, arr_type, new_transform, rband, files>>
maskVars  == <<raster_ds, covered, nodata_value, raster_array, mask_ds,
               mask_array, handles, opened, out_ds>>
vars == <<pc, error, readVars, writeVars, maskVars>>

(* ------------------------------ bounds --------------------------------- *)
MaxDim   == 4       \* rows and columns of the reference raster and of arr
MaxBands == 2       \* length of axis 2 of a 3-D array / bands of a dataset
ReadDim  == 2       \* rows and columns of the dataset read_geotiff opens
MaskDim  == 2       \* rows and columns of the raster that is masked

(* ------------------------- exact rationals ----------------------------- *)
Abs(n) == IF n < 0 THEN -n ELSE n

RECURSIVE GCD(_, _)
GCD(a, b) == IF b = 0 THEN a ELSE GCD(b, a % b)

\* the rational n/d in lowest terms with a positive denominator (d # 0)
Rat(n, d) ==
    LET g == GCD(Abs(n), Abs(d))
        s == IF d < 0 THEN -1 ELSE 1
    IN  <<(s * n) \div g, (s * d) \div g>>

R(n) == Rat(n, 1)
RAdd(a, b) == Rat(a[1] * b[2] + b[1] * a[2], a[2] * b[2])
RSub(a, b) == Rat(a[1] * b[2] - b[1] * a[2], a[2] * b[2])
RMul(a, b) == Rat(a[1] * b[1], a[2] * b[2])
Half == Rat(1, 2)

(* --------------------- element types and conversions ------------------- *)
Pow2(n) == 2 ^ n

\* Pixel values of read_geotiff and write_geotiff reach 2^32 - 1, so they are
\* kept as two-limb integers <<hi, lo>> standing for hi * 2^16 + lo with
\* 0 <= lo < 2^16.
Wide(n) == <<n \div Pow2(16), n % Pow2(16)>>

\* numpy's cast of an integer into a uint32 array: modulo 2^32
U32(w) == <<w[1] % Pow2(16), w[2]>>

\* GDAL's copy of a buffer word into an Int32 band: clamped to the range
ClampInt32(w) ==
    IF w[1] >= Pow2(15) THEN <<Pow2(15) - 1, Pow2(16) - 1>>
    ELSE IF w[1] < -Pow2(15) THEN <<-Pow2(15), 0>>
    ELSE w

\* RasterIO's conversion of one buffer word to the band's type; a Float32
\* band only ever receives float32 buffers, which it stores unchanged
CopyWord(w, type) == IF type = "GDT_Int32" THEN ClampInt32(w) ELSE w

RECURSIVE F32Exp(_, _)
\* the power of two that one unit in the last place of a float32 is worth
\* at magnitude m (1 below 2^24, where every integer is representable)
F32Exp(m, q) == IF m \div q < Pow2(24) THEN q ELSE F32Exp(m, 2 * q)

\* numpy's conversion of an integral value (below 2^30 in magnitude) to
\* float32: round to the nearest value with a 24-bit significand, ties to
\* the even significand
F32(x) ==
    LET m  == Abs(x)
        q  == F32Exp(m, 1)
        lo == m \div q
        rm == m % q
        up == IF 2 * rm > q THEN 1
              ELSE IF 2 * rm < q THEN 0
              ELSE lo % 2
        v  == (lo + up) * q
    IN  IF x < 0 THEN -v ELSE v

(* ------------------------------ arrays --------------------------------- *)
Pixels(rows, cols) == (0 .. rows - 1) \X (0 .. cols - 1)
Voxels(rows, cols, n) == (0 .. rows - 1) \X (0 .. cols - 1) \X (0 .. n - 1)

\* the values an input array of each numpy dtype is filled with
Palette(dtype) ==
    CASE dtype = "float32" -> <<Wide(1), Wide(-9999), Wide(16777216)>>
      [] dtype = "int32"   -> <<Wide(0), <<-Pow2(15), 0>>, Wide(2147483647)>>
      [] dtype = "uint32"  -> <<Wide(7), <<Pow2(15), 0>>, <<Pow2(16) - 1, Pow2(16) - 1>>>>
      [] dtype = "int16"   -> <<Wide(5), Wide(-1), Wide(32767)>>

PaletteAt(dtype, i) == Palette(dtype)[(i % 3) + 1]

\* arr[:, :, k]
Slice(a, k) ==
    [p \in Pixels(a.shape[1], a.shape[2]) |-> a.data[<<p[1], p[2], k>>]]

Array2D(dtype, rows, cols) ==
    [dtype |-> dtype, shape |-> <<rows, cols>>,
     data |-> [p \in Pixels(rows, cols) |-> PaletteAt(dtype, p[1] + 2 * p[2])]]

Array3D(dtype, rows, cols, n) ==
    [dtype |-> dtype, shape |-> <<rows, cols, n>>,
     data |-> [p \in Voxels(rows, cols, n) |->
                  PaletteAt(dtype, p[1] + 2 * p[2] + p[3])]]

(* ======================= write_geotiff ================================= *)
Folder == "out"
Name   == "img"

\* the geotransforms of the reference rasters
Transforms ==
    { <<R(0), R(10), R(0), R(40), R(0), R(-10)>>,
      <<R(3), Rat(1, 2), R(1), R(-7), R(2), Rat(-3, 2)>> }

Projections == {"EPSG:4326"}

WriteDtypes == {"float32", "int32", "uint32"}

\* only float32 is told apart; every other dtype is written as Int32
GDALType(dtype) == IF dtype = "float32" THEN "GDT_Float32" ELSE "GDT_Int32"

\* mutant of x_res: the column scalar computed with floor division
x_res_floordiv(trans, ref_cols, arr_cols) == RMul(trans[2], R(ref_cols \div arr_cols))

x_res(trans, ref_cols, arr_cols) == RMul(trans[2], Rat(ref_cols, arr_cols))
y_res(trans, ref_rows, arr_rows) == RMul(trans[6], Rat(ref_rows, arr_rows))

\* mutant of new_origin_x: the half-pixel shift taken with the opposite sign
new_origin_x_flipped(trans, xres) ==
    RAdd(trans[1], RMul(Half, RSub(xres, trans[2])))

new_origin_x(trans, xres) == RAdd(trans[1], RMul(Half, RSub(trans[2], xres)))
new_origin_y(trans, yres) == RAdd(trans[4], RMul(Half, RSub(trans[6], yres)))

\* mutant of Rescale: the two rotation terms put in each other's place
RescaleSwapRot(trans, ref_rows, ref_cols, arr_rows, arr_cols) ==
    LET xres == x_res(trans, ref_cols, arr_cols)
        yres == y_res(trans, ref_rows, arr_rows)
    IN  <<new_origin_x(trans, xres), xres, trans[5],
          new_origin_y(trans, yres), trans[3], yres>>

\* the tuple write_geotiff hands to SetGeoTransform
Rescale(trans, ref_rows, ref_cols, arr_rows, arr_cols) ==
    LET xres == x_res(trans, ref_cols, arr_cols)
        yres == y_res(trans, ref_rows, arr_rows)
    IN  <<new_origin_x(trans, xres), xres, trans[3],
          new_origin_y(trans, yres), trans[5], yres>>

\* mutant of BandPath: band indices in file names counted from 1
BandPathOneBased(folder, name, i) ==
    folder \o "/" \o name \o "_" \o ToString(i + 1) \o ".tif"

\* f'{folder}/{name}_{rband}.tif' and f'{folder}/{name}.tif'
BandPath(folder, name, i) == folder \o "/" \o name \o "_" \o ToString(i) \o ".tif"
SinglePath(folder, name) == folder \o "/" \o name \o ".tif"

\* driver.Create(path, xsize, ysize, 1, type): a fresh single-band dataset
CreateDataset(path, xsize, ysize, type) ==
    [path |-> path, RasterXSize |-> xsize, RasterYSize |-> ysize,
     RasterCount |-> 1, type |-> type,
     projection |-> "",
     transform |-> <<R(0), R(1), R(0), R(0), R(0), R(1)>>,
     data |-> [p \in Pixels(ysize, xsize) |-> Wide(0)],
     written |-> FALSE, flushed |-> FALSE, stats |-> FALSE]

IsMulti == Len(arr.shape) > 2

NoRead ==
    /\ ds = [RasterYSize |-> 0, RasterXSize |-> 0, RasterCount |-> 0, dtype |-> "none"]
    /\ stack = <<>>
    /\ band = 0
    /\ readlog = <<>>
    /\ result = <<>>

NoWrite ==
    /\ arr = <<>>
    /\ reference = <<>>
    /\ arr_type = "none"
    /\ new_transform = <<>>
    /\ rband = 0
    /\ files = <<>>

NoMask ==
    /\ raster_ds = <<>>
    /\ covered = {}
    /\ nodata_value = <<>>
    /\ raster_array = <<>>
    /\ mask_ds = <<>>
    /\ mask_array = <<>>
    /\ handles = {}
    /\ opened = {}
    /\ out_ds = <<>>

InitWrite ==
    /\ pc = "w_start"
    /\ error = "none"
    /\ NoRead
    /\ NoMask
    /\ \E dtype \in WriteDtypes, rows \in 0 .. MaxDim, cols \in 0 .. MaxDim,
          n \in 0 .. MaxBands + 1 :
          arr = IF n = MaxBands + 1 THEN Array2D(dtype, rows, cols)
                ELSE Array3D(dtype, rows, cols, n)
    /\ \E trans \in Transforms, proj \in Projections,
          ref_rows \in 1 .. MaxDim, ref_cols \in 1 .. MaxDim :
          reference = [trans |-> trans, proj |-> proj,
                       refData |-> [RasterYSize |-> ref_rows,
                                    RasterXSize |-> ref_cols]]
    /\ arr_type = "none"
    /\ new_transform = <<>>
    /\ rband = 0
    /\ files = <<>>

\* mutant of WriteStart: the output file is created before the pixel size
\* is computed
WriteStartCreatesFirst ==
    /\ pc = "w_start"
    /\ arr_type' = GDALType(arr.dtype)
    /\ files' = Append(files,
                       CreateDataset(IF IsMulti THEN BandPath(Folder, Name, 0)
                                     ELSE SinglePath(Folder, Name),
                                     arr.shape[2], arr.shape[1],
                                     GDALType(arr.dtype)))
    /\ IF arr.shape[2] = 0 \/ arr.shape[1] = 0
       THEN /\ pc' = "failed"
            /\ error' = "ZeroDivisionError"
            /\ UNCHANGED new_transform
       ELSE /\ new_transform' = Rescale(reference.trans,
                                        reference.refData.RasterYSize,
                                        reference.refData.RasterXSize,
                                        arr.shape[1], arr.shape[2])
            /\ pc' = "w_setproj"
            /\ UNCHANGED error
    /\ UNCHANGED <<arr, reference, rband, readVars, maskVars>>

\* lines 52-81: choose the band type, rescale the transform, enter the branch
WriteStart ==
    /\ pc = "w_start"
    /\ arr_type' = GDALType(arr.dtype)
    /\ IF arr.shape[2] = 0 \/ arr.shape[1] = 0
       THEN /\ pc' = "failed"
            /\ error' = "ZeroDivisionError"
            /\ UNCHANGED new_transform
       ELSE /\ new_transform' = Rescale(reference.trans,
                                        reference.refData.RasterYSize,
                                        reference.refData.RasterXSize,
                                        arr.shape[1], arr.shape[2])
            /\ pc' = IF IsMulti /\ arr.shape[3] = 0 THEN "done" ELSE "w_create"
            /\ UNCHANGED error
    /\ UNCHANGED <<arr, reference, rband, files, readVars, maskVars>>

\* lines 83 and 91: driver.Create
CreateFile ==
    /\ pc = "w_create"
    /\ files' = Append(files,
                       CreateDataset(IF IsMulti THEN BandPath(Folder, Name, rband)
                                     ELSE SinglePath(Folder, Name),
                                     arr.shape[2], arr.shape[1], arr_type))
    /\ pc' = "w_setproj"
    /\ UNCHANGED <<error, arr, reference, arr_type, new_transform, rband,
                   readVars, maskVars>>

\* lines 84 and 92
SetProjection ==
    /\ pc = "w_setproj"
    /\ files' = [files EXCEPT ![Len(files)].projection = reference.proj]
    /\ pc' = "w_settrans"
    /\ UNCHANGED <<error, arr, reference, arr_type, new_transform, rband,
                   readVars, maskVars>>

\* lines 85 and 93
SetGeoTransform ==
    /\ pc = "w_settrans"
    /\ files' = [files EXCEPT ![Len(files)].transform = new_transform]
    /\ pc' = "w_write"
    /\ UNCHANGED <<error, arr, reference, arr_type, new_transform, rband,
                   readVars, maskVars>>

\* the array handed to WriteArray in the current iteration
WrittenArray == IF IsMulti THEN Slice(arr, rband) ELSE arr.data

\* lines 86-87 and 94-95
WriteArray ==
    /\ pc = "w_write"
    /\ files' = [files EXCEPT
                   ![Len(files)].data =
                       [p \in DOMAIN WrittenArray |->
                           CopyWord(WrittenArray[p], files[Len(files)].type)],
                   ![Len(files)].written = TRUE]
    /\ pc' = "w_flush"
    /\ UNCHANGED <<error, arr, reference, arr_type, new_transform, rband,
                   readVars, maskVars>>

\* lines 88 and 96
FlushCache ==
    /\ pc = "w_flush"
    /\ files' = [files EXCEPT ![Len(files)].flushed = TRUE]
    /\ pc' = "w_stats"
    /\ UNCHANGED <<error, arr, reference, arr_type, new_transform, rband,
                   readVars, maskVars>>

\* lines 89 and 97, and the step of the for loop of line 82
ComputeStatistics ==
    /\ pc = "w_stats"
    /\ files' = [files EXCEPT ![Len(files)].stats = TRUE]
    /\ IF IsMulti /\ rband + 1 < arr.shape[3]
       THEN /\ rband' = rband + 1
            /\ pc' = "w_create"
       ELSE /\ pc' = "done"
            /\ UNCHANGED rband
    /\ UNCHANGED <<error, arr, reference, arr_type, new_transform,
                   readVars, maskVars>>

WriteSteps == {"w_create", "w_setproj", "w_settrans", "w_write", "w_flush", "w_stats"}

\* mutant of WriteFail: the files written so far are removed on failure
WriteFailCleanup ==
    /\ pc \in WriteSteps
    /\ pc' = "failed"
    /\ error' = "WriteError"
    /\ files' = <<>>
    /\ UNCHANGED <<arr, reference, arr_type, new_transform, rband,
                   readVars, maskVars>>

\* a library call of lines 83-89 / 91-97 raises: nothing catches it, nothing
\* is cleaned up
WriteFail ==
    /\ pc \in WriteSteps
    /\ pc' = "failed"
    /\ error' = "WriteError"
    /\ UNCHANGED <<arr, reference, arr_type, new_transform, rband, files,
                   readVars, maskVars>>

NextWrite ==
    \/ WriteStart
    \/ CreateFile
    \/ SetProjection
    \/ SetGeoTransform
    \/ WriteArray
    \/ FlushCache
    \/ ComputeStatistics
    \/ WriteFail

SpecWrite == InitWrite /\ [][NextWrite]_vars

(* ========================= read_geotiff ================================ *)
ReadDtypes == {"int16", "int32", "uint32"}

\* np.empty leaves the elements of the new array unset
Uninit == <<>>

\* a dataset of the given size whose bands 1 .. count differ from each other
Dataset(dtype, rows, cols, count) ==
    [RasterYSize |-> rows, RasterXSize |-> cols, RasterCount |-> count,
     dtype |-> dtype,
     bands |-> [n \in 1 .. count |->
                  [p \in Pixels(rows, cols) |->
                      PaletteAt(dtype, p[1] + 2 * p[2] + n)]]]

\* ds.GetRasterBand(n).ReadAsArray(): band numbers start at 1
ReadAsArray(d, n) == d.bands[n]

InitRead ==
    /\ pc = "r_start"
    /\ error = "none"
    /\ NoWrite
    /\ NoMask
    /\ \E dtype \in ReadDtypes, rows \in 1 .. ReadDim, cols \in 1 .. ReadDim,
          count \in 1 .. MaxBands + 1 :
          ds = Dataset(dtype, rows, cols, count)
    /\ stack = <<>>
    /\ band = 0
    /\ readlog = <<>>
    /\ result = <<>>

\* lines 27-30 and 36: open, branch on the band count, allocate the stack
ReadOpen ==
    /\ pc = "r_start"
    /\ IF ds.RasterCount > 1
       THEN /\ stack' = [dtype |-> "uint32",
                         shape |-> <<ds.RasterYSize, ds.RasterXSize, ds.RasterCount>>,
                         data |-> [v \in Voxels(ds.RasterYSize, ds.RasterXSize,
                                                ds.RasterCount) |-> Uninit]]
            /\ pc' = "r_loop"
       ELSE /\ pc' = "r_single"
            /\ UNCHANGED stack
    /\ UNCHANGED <<error, ds, band, readlog, result, writeVars, maskVars>>

\* line 27: gdal.Open cannot open the path
ReadOpenFail ==
    /\ pc = "r_start"
    /\ pc' = "failed"
    /\ error' = "OpenError"
    /\ UNCHANGED <<readVars, writeVars, maskVars>>

\* mutant of ReadBand: the loop index used as the band number's mirror image
ReadBandReversed ==
    /\ pc = "r_loop"
    /\ band < ds.RasterCount
    /\ LET a == ReadAsArray(ds, ds.RasterCount - band)
       IN  stack' = [stack EXCEPT !.data =
                        [v \in DOMAIN stack.data |->
                            IF v[3] = band THEN U32(a[<<v[1], v[2]>>])
                            ELSE stack.data[v]]]
    /\ readlog' = Append(readlog, ds.RasterCount - band)
    /\ band' = band + 1
    /\ UNCHANGED <<pc, error, ds, result, writeVars, maskVars>>

\* lines 31-34: one iteration, band + 1 read and cast into stack[:, :, band]
ReadBand ==
    /\ pc = "r_loop"
    /\ band < ds.RasterCount
    /\ LET a == ReadAsArray(ds, band + 1)
       IN  stack' = [stack EXCEPT !.data =
                        [v \in DOMAIN stack.data |->
                            IF v[3] = band THEN U32(a[<<v[1], v[2]>>])
                            ELSE stack.data[v]]]
    /\ readlog' = Append(readlog, band + 1)
    /\ band' = band + 1
    /\ UNCHANGED <<pc, error, ds, result, writeVars, maskVars>>

\* line 35: the loop is over, the stack is returned
ReadReturnStack ==
    /\ pc = "r_loop"
    /\ band = ds.RasterCount
    /\ result' = stack
    /\ pc' = "done"
    /\ UNCHANGED <<error, ds, stack, band, readlog, writeVars, maskVars>>

\* lines 37-39: the only band is returned in its native type
ReadSingle ==
    /\ pc = "r_single"
    /\ result' = [dtype |-> ds.dtype,
                  shape |-> <<ds.RasterYSize, ds.RasterXSize>>,
                  data |-> ReadAsArray(ds, 1)]
    /\ readlog' = Append(readlog, 1)
    /\ pc' = "done"
    /\ UNCHANGED <<error, ds, stack, band, writeVars, maskVars>>

NextRead ==
    \/ ReadOpen
    \/ ReadOpenFail
    \/ ReadBand
    \/ ReadReturnStack
    \/ ReadSingle

SpecRead == InitRead /\ [][NextRead]_vars

(* =================== mask_raster_with_shapefile ======================== *)
\* a Python float / float32 element: NaN, or a number (integral here)
NaN == [nan |-> TRUE, v |-> 0]
Float(x) == [nan |-> FALSE, v |-> x]

\* a value stored into a float32 array
ToFloat32(f) == IF f.nan THEN NaN ELSE Float(F32(f.v))

\* the nodata_value arguments tried, the default np.nan among them
NoDataValues == {NaN, Float(-9999), Float(16777217)}

\* band-1 values of the source rasters
SourceValues == <<1, 16777219, -3>>

AllHandles == {"raster_ds", "mask_ds", "shp_ds", "out_ds"}

InitMask ==
    /\ pc = "m_open_raster"
    /\ error = "none"
    /\ NoRead
    /\ NoWrite
    /\ \E rows \in 1 .. MaskDim, cols \in 1 .. MaskDim, trans \in Transforms,
          proj \in Projections :
          /\ raster_ds = [RasterYSize |-> rows, RasterXSize |-> cols,
                          transform |-> trans, projection |-> proj,
                          data |-> [p \in Pixels(rows, cols) |->
                                      SourceValues[((p[1] + 2 * p[2]) % 3) + 1]]]
          /\ covered \in SUBSET Pixels(rows, cols)
    /\ nodata_value \in NoDataValues
    /\ raster_array = <<>>
    /\ mask_ds = <<>>
    /\ mask_array = <<>>
    /\ handles = {}
    /\ opened = {}
    /\ out_ds = <<>>

\* lines 104-106: open the raster and read band 1
OpenRaster ==
    /\ pc = "m_open_raster"
    /\ handles' = handles \cup {"raster_ds"}
    /\ opened' = opened \cup {"raster_ds"}
    /\ raster_array' = raster_ds.data
    /\ pc' = "m_create_mask"
    /\ UNCHANGED <<error, raster_ds, covered, nodata_value, mask_ds, mask_array,
                   out_ds, readVars, writeVars>>

\* lines 109-111: the zero-filled byte raster on the source's grid
CreateMask ==
    /\ pc = "m_create_mask"
    /\ mask_ds' = [RasterYSize |-> raster_ds.RasterYSize,
                   RasterXSize |-> raster_ds.RasterXSize,
                   transform |-> raster_ds.transform,
                   projection |-> raster_ds.projection,
                   data |-> [p \in Pixels(raster_ds.RasterYSize,
                                          raster_ds.RasterXSize) |-> 0]]
    /\ handles' = handles \cup {"mask_ds"}
    /\ opened' = opened \cup {"mask_ds"}
    /\ pc' = "m_open_shp"
    /\ UNCHANGED <<error, raster_ds, covered, nodata_value, raster_array,
                   mask_array, out_ds, readVars, writeVars>>

\* lines 114-115: open the shapefile and take its layer
OpenShapefile ==
    /\ pc = "m_open_shp"
    /\ handles' = handles \cup {"shp_ds"}
    /\ opened' = opened \cup {"shp_ds"}
    /\ pc' = "m_rasterize"
    /\ UNCHANGED <<error, raster_ds, covered, nodata_value, raster_array,
                   mask_ds, mask_array, out_ds, readVars, writeVars>>

\* line 118: burn 1 into every pixel the layer's geometry covers
RasterizeLayer ==
    /\ pc = "m_rasterize"
    /\ mask_ds' = [mask_ds EXCEPT !.data =
                      [p \in DOMAIN mask_ds.data |->
                          IF p \in covered THEN 1 ELSE mask_ds.data[p]]]
    /\ pc' = "m_read_mask"
    /\ UNCHANGED <<error, raster_ds, covered, nodata_value, raster_array,
                   mask_array, handles, opened, out_ds, readVars, writeVars>>

\* line 121
ReadMask ==
    /\ pc = "m_read_mask"
    /\ mask_array' = mask_ds.data
    /\ pc' = "m_apply"
    /\ UNCHANGED <<error, raster_ds, covered, nodata_value, raster_array,
                   mask_ds, handles, opened, out_ds, readVars, writeVars>>

\* mutant of ApplyMask: the pixels outside the mask are overwritten
ApplyMaskInverted ==
    /\ pc = "m_apply"
    /\ raster_array' = [p \in DOMAIN raster_array |->
                           IF mask_array[p] = 0 THEN ToFloat32(nodata_value)
                           ELSE Float(F32(raster_array[p]))]
    /\ pc' = "m_create_out"
    /\ UNCHANGED <<error, raster_ds, covered, nodata_value, mask_ds, mask_array,
                   handles, opened, out_ds, readVars, writeVars>>

\* lines 124-125: cast to float32, then store nodata_value under the mask
ApplyMask ==
    /\ pc = "m_apply"
    /\ raster_array' = [p \in DOMAIN raster_array |->
                           IF mask_array[p] = 1 THEN ToFloat32(nodata_value)
                           ELSE Float(F32(raster_array[p]))]
    /\ pc' = "m_create_out"
    /\ UNCHANGED <<error, raster_ds, covered, nodata_value, mask_ds, mask_array,
                   handles, opened, out_ds, readVars, writeVars>>

\* lines 128-131: the Float32 output on the source's grid
CreateOutput ==
    /\ pc = "m_create_out"
    /\ out_ds' = [RasterYSize |-> raster_ds.RasterYSize,
                  RasterXSize |-> raster_ds.RasterXSize,
                  RasterCount |-> 1, type |-> "GDT_Float32",
                  transform |-> raster_ds.transform,
                  projection |-> raster_ds.projection,
                  data |-> [p \in Pixels(raster_ds.RasterYSize,
                                         raster_ds.RasterXSize) |-> Float(0)],
                  nodata |-> <<>>,
                  written |-> FALSE, flushed |-> FALSE]
    /\ handles' = handles \cup {"out_ds"}
    /\ opened' = opened \cup {"out_ds"}
    /\ pc' = "m_write"
    /\ UNCHANGED <<error, raster_ds, covered, nodata_value, raster_array,
                   mask_ds, mask_array, readVars, writeVars>>

\* lines 133-134
WriteOutput ==
    /\ pc = "m_write"
    /\ out_ds' = [out_ds EXCEPT !.data = raster_array, !.written = TRUE]
    /\ pc' = "m_set_nodata"
    /\ UNCHANGED <<error, raster_ds, covered, nodata_value, raster_array,
                   mask_ds, mask_array, handles, opened, readVars, writeVars>>

\* line 135: the band records the argument itself, a double (<<>>: not set)
SetNoDataValue ==
    /\ pc = "m_set_nodata"
    /\ out_ds' = [out_ds EXCEPT !.nodata = <<nodata_value>>]
    /\ pc' = "m_flush"
    /\ UNCHANGED <<error, raster_ds, covered, nodata_value, raster_array,
                   mask_ds, mask_array, handles, opened, readVars, writeVars>>

\* line 136
FlushOutput ==
    /\ pc = "m_flush"
    /\ out_ds' = [out_ds EXCEPT !.flushed = TRUE]
    /\ pc' = "m_release_raster"
    /\ UNCHANGED <<error, raster_ds, covered, nodata_value, raster_array,
                   mask_ds, mask_array, handles, opened, readVars, writeVars>>

\* mutant of ReleaseRaster: the source raster's handle is never dropped
ReleaseRasterForgotten ==
    /\ pc = "m_release_raster"
    /\ pc' = "m_release_mask"
    /\ UNCHANGED <<error, raster_ds, covered, nodata_value, raster_array,
                   mask_ds, mask_array, handles, opened, out_ds,
                   readVars, writeVars>>

\* line 139
ReleaseRaster ==
    /\ pc = "m_release_raster"
    /\ handles' = handles \ {"raster_ds"}
    /\ pc' = "m_release_mask"
    /\ UNCHANGED <<error, raster_ds, covered, nodata_value, raster_array,
                   mask_ds, mask_array, opened, out_ds, readVars, writeVars>>

\* line 140
ReleaseMask ==
    /\ pc = "m_release_mask"
    /\ handles' = handles \ {"mask_ds"}
    /\ pc' = "m_release_shp"
    /\ UNCHANGED <<error, raster_ds, covered, nodata_value, raster_array,
                   mask_ds, mask_array, opened, out_ds, readVars, writeVars>>

\* line 141
ReleaseShapefile ==
    /\ pc = "m_release_shp"
    /\ handles' = handles \ {"shp_ds"}
    /\ pc' = "m_release_out"
    /\ UNCHANGED <<error, raster_ds, covered, nodata_value, raster_array,
                   mask_ds, mask_array, opened, out_ds, readVars, writeVars>>

\* lines 142-143: drop the output's handle, print, return
ReleaseOutput ==
    /\ pc = "m_release_out"
    /\ handles' = handles \ {"out_ds"}
    /\ pc' = "done"
    /\ UNCHANGED <<error, raster_ds, covered, nodata_value, raster_array,
                   mask_ds, mask_array, opened, out_ds, readVars, writeVars>>

MaskLibrarySteps ==
    {"m_open_raster", "m_create_mask", "m_open_shp", "m_rasterize",
     "m_read_mask", "m_apply", "m_create_out", "m_write", "m_set_nodata",
     "m_flush"}

\* a statement of lines 104-136 raises: there is no try/finally, so the
\* function releases nothing on the way out
MaskFail ==
    /\ pc \in MaskLibrarySteps
    /\ pc' = "failed"
    /\ error' = IF pc \in {"m_open_raster", "m_open_shp"} THEN "OpenError"
                ELSE "Error"
    /\ UNCHANGED maskVars
    /\ UNCHANGED <<readVars, writeVars>>

NextMask ==
    \/ OpenRaster
    \/ CreateMask
    \/ OpenShapefile
    \/ RasterizeLayer
    \/ ReadMask
    \/ ApplyMask
    \/ CreateOutput
    \/ WriteOutput
    \/ SetNoDataValue
    \/ FlushOutput
    \/ ReleaseRaster
    \/ ReleaseMask
    \/ ReleaseShapefile
    \/ ReleaseOutput
    \/ MaskFail

SpecMask == InitMask /\ [][NextMask]_vars

(* =================== properties of write_geotiff ======================= *)
Trans    == reference.trans
RefRows  == reference.refData.RasterYSize
RefCols  == reference.refData.RasterXSize
ArrRows  == arr.shape[1]
ArrCols  == arr.shape[2]
Rescaled == new_transform # <<>>

Digits == <<"0", "1", "2", "3", "4", "5", "6", "7", "8", "9">>
ExpectedBandPath(i) == "out/img_" \o Digits[i + 1] \o ".tif"

\* file number i + 1 is the single-band R x C raster named for slice i and
\* carries the transform and projection of the first file
IsBandFile(i) ==
    LET f == files[i + 1]
    IN  /\ f.path = ExpectedBandPath(i)
        /\ f.RasterCount = 1
        /\ f.RasterYSize = ArrRows
        /\ f.RasterXSize = ArrCols
        /\ DOMAIN f.data = Pixels(ArrRows, ArrCols)
        /\ f.transform = files[1].transform
        /\ f.projection = files[1].projection

\* slice i as a band of the type chosen from the array's dtype stores it
StoredSlice(i) ==
    IF arr.dtype = "float32" THEN Slice(arr, i)
    ELSE [p \in Pixels(ArrRows, ArrCols) |-> ClampInt32(Slice(arr, i)[p])]

\* C2 as stated: a completed write of a 3-D array of shape (R, C, B), B > 1,
\* has created exactly B files out/img_0.tif .. out/img_{B-1}.tif in that
\* order, each a single-band R x C raster holding exactly slice i, all with
\* one transform and one projection; a 2-D array gives exactly one file.
C2_FilesHoldSlices ==
    pc = "done" =>
        /\ (IsMulti /\ arr.shape[3] > 1) =>
              /\ Len(files) = arr.shape[3]
              /\ \A i \in 0 .. arr.shape[3] - 1 :
                    IsBandFile(i) /\ files[i + 1].data = Slice(arr, i)
        /\ ~IsMulti => Len(files) = 1

\* C2 amended: as above, but each file holds slice i converted to the band
\* type chosen from the array's dtype (float32 kept as Float32, every other
\* dtype stored as Int32, out-of-range values clamped).
C2_FilesHoldConvertedSlices ==
    pc = "done" =>
        /\ (IsMulti /\ arr.shape[3] > 1) =>
              /\ Len(files) = arr.shape[3]
              /\ \A i \in 0 .. arr.shape[3] - 1 :
                    /\ IsBandFile(i)
                    /\ files[i + 1].type = IF arr.dtype = "float32"
                                           THEN "GDT_Float32" ELSE "GDT_Int32"
                    /\ files[i + 1].data = StoredSlice(i)
        /\ ~IsMulti => Len(files) = 1

C2_Witness ==
    /\ pc = "done"
    /\ IsMulti
    /\ arr.shape[3] > 1
    /\ arr.dtype = "uint32"
    /\ Len(files) = arr.shape[3]
    /\ \E p \in Pixels(ArrRows, ArrCols) : files[2].data[p] # Slice(arr, 1)[p]

\* C3: whenever the rows and columns are strictly positive, the rescaled
\* pixel width times the array's columns equals the reference pixel width
\* times the reference's columns, and likewise for the height and the rows.
C3_ExtentPreserved ==
    Rescaled =>
        /\ RMul(new_transform[2], R(ArrCols)) = RMul(Trans[2], R(RefCols))
        /\ RMul(new_transform[6], R(ArrRows)) = RMul(Trans[6], R(RefRows))

C3_Witness ==
    /\ Rescaled
    /\ RefCols % ArrCols # 0
    /\ RefRows % ArrRows # 0
    /\ new_transform[2] # Trans[2]

\* C4: the two rotation terms are always copied unchanged, and when the
\* array has the reference's rows and columns the rescaled transform, and
\* the transform of every file of a completed write, is the reference
\* transform in all six coefficients.
C4_SameShapeIdentity ==
    Rescaled =>
        /\ new_transform[3] = Trans[3]
        /\ new_transform[5] = Trans[5]
        /\ (ArrRows = RefRows /\ ArrCols = RefCols) =>
              /\ new_transform = Trans
              /\ pc = "done" =>
                    \A i \in 1 .. Len(files) : files[i].transform = Trans

C4_Witness ==
    /\ pc = "done"
    /\ ArrRows = RefRows
    /\ ArrCols = RefCols
    /\ Len(files) > 1
    /\ Trans[3] # Trans[5]
    /\ files[Len(files)].transform = Trans

IsExample ==
    /\ Rescaled
    /\ Trans = <<R(0), R(10), R(0), R(40), R(0), R(-10)>>
    /\ RefRows = 4
    /\ RefCols = 4
    /\ ArrRows = 2
    /\ ArrCols = 2

\* C5 as stated: a 4x4 reference with transform (0, 10, 0, 40, 0, -10) and
\* a (2, 2) array rescale to (2.5, 20, 0, 22.5, 0, -20).
C5_ExampleAsStated ==
    IsExample =>
        new_transform = <<Rat(5, 2), R(20), R(0), Rat(45, 2), R(0), R(-20)>>

\* C5 amended: that input rescales to (-5, 20, 0, 45, 0, -20).
C5_ExampleComputed ==
    IsExample =>
        new_transform = <<R(-5), R(20), R(0), R(45), R(0), R(-20)>>

C5_Witness == IsExample /\ pc = "done"

\* C7: when the array has zero rows or zero columns the call ends with a
\* division-by-zero error right after its first step, with no file created.
C7_ZeroDimFailsBeforeCreate ==
    ((ArrRows = 0 \/ ArrCols = 0) /\ pc # "w_start") =>
        /\ pc = "failed"
        /\ error = "ZeroDivisionError"
        /\ files = <<>>

C7_Witness ==
    /\ pc = "failed"
    /\ error = "ZeroDivisionError"
    /\ ArrRows = 0
    /\ ArrCols > 0
    /\ files = <<>>

\* C8: for strictly positive rows and columns, the left/top edge and the
\* right/bottom edge of the rescaled grid coincide with the reference's.
C8_OuterBoundsCoincide ==
    Rescaled =>
        /\ new_transform[1] = Trans[1]
        /\ new_transform[4] = Trans[4]
        /\ RAdd(new_transform[1], RMul(R(ArrCols), new_transform[2]))
              = RAdd(Trans[1], RMul(R(RefCols), Trans[2]))
        /\ RAdd(new_transform[4], RMul(R(ArrRows), new_transform[6]))
              = RAdd(Trans[4], RMul(R(RefRows), Trans[6]))

\* a file on which every statement of one loop iteration has run
FullyWritten(i) ==
    LET f == files[i + 1]
    IN  /\ f.path = ExpectedBandPath(i)
        /\ f.projection = reference.proj
        /\ f.transform = new_transform
        /\ f.written
        /\ f.data = StoredSlice(i)
        /\ f.flushed
        /\ f.stats

\* C9: when a multi-band write has failed in the iteration of slice k, the
\* files of slices 0 .. k-1 are all on disk, fully written, and no file of
\* a slice after k exists.
C9_PriorSlicesRemain ==
    (pc = "failed" /\ error = "WriteError" /\ IsMulti) =>
        /\ Len(files) \in {rband, rband + 1}
        /\ \A i \in 0 .. rband - 1 : FullyWritten(i)
        /\ \A i \in 1 .. Len(files) :
              \E k \in 0 .. rband : files[i].path = ExpectedBandPath(k)

C9_Witness ==
    /\ pc = "failed"
    /\ error = "WriteError"
    /\ IsMulti
    /\ rband > 0
    /\ rband < arr.shape[3]
    /\ Len(files) = rband
    /\ FullyWritten(rband - 1)

(* ==================== properties of read_geotiff ======================= *)
\* C6: a one-band source gives a 2-D array of shape (rows, cols); a source
\* of B > 1 bands gives a uint32 array of shape (rows, cols, B) whose index
\* k of the last axis holds band k + 1 (as cast to uint32), the bands having
\* been read once each in the order 1 .. B.
C6_ReadShapes ==
    pc = "done" =>
        IF ds.RasterCount = 1
        THEN /\ result.shape = <<ds.RasterYSize, ds.RasterXSize>>
             /\ result.data = ds.bands[1]
        ELSE /\ result.shape = <<ds.RasterYSize, ds.RasterXSize, ds.RasterCount>>
             /\ result.dtype = "uint32"
             /\ DOMAIN result.data =
                   Voxels(ds.RasterYSize, ds.RasterXSize, ds.RasterCount)
             /\ \A v \in DOMAIN result.data :
                   result.data[v] = U32(ds.bands[v[3] + 1][<<v[1], v[2]>>])
             /\ readlog = [n \in 1 .. ds.RasterCount |-> n]

C6_Witness ==
    /\ pc = "done"
    /\ ds.RasterCount > 2
    /\ ds.dtype = "int16"
    /\ result.shape[3] = ds.RasterCount
    /\ \E v \in DOMAIN result.data :
          result.data[v] # ds.bands[v[3] + 1][<<v[1], v[2]>>]

(* ============== properties of mask_raster_with_shapefile =============== *)
\* the float32 copy of the source's band-1 value at pixel p
CoercedSource(p) == Float(F32(raster_ds.data[p]))

\* C1 as stated: after the function returns, every output pixel whose mask
\* value is 1 equals nodata_value, every other pixel equals the float-coerced
\* source value, and the band's declared no-data value equals nodata_value.
C1_MaskedEqualNodata ==
    pc = "done" =>
        /\ \A p \in DOMAIN out_ds.data :
              IF mask_array[p] = 1 THEN out_ds.data[p] = nodata_value
              ELSE out_ds.data[p] = CoercedSource(p)
        /\ out_ds.nodata = <<nodata_value>>

\* C1 amended: every output pixel whose mask value is 1 holds nodata_value
\* as rounded to a 32-bit float; every other pixel holds the float-coerced
\* source value; the declared no-data value is nodata_value itself.
C1_MaskedHoldCoercedNodata ==
    pc = "done" =>
        /\ DOMAIN out_ds.data = Pixels(raster_ds.RasterYSize, raster_ds.RasterXSize)
        /\ \A p \in DOMAIN out_ds.data :
              IF mask_array[p] = 1
              THEN out_ds.data[p] = (IF nodata_value.nan THEN NaN
                                     ELSE Float(F32(nodata_value.v)))
              ELSE out_ds.data[p] = CoercedSource(p)
        /\ out_ds.nodata = <<nodata_value>>

C1_Witness ==
    /\ pc = "done"
    /\ nodata_value = Float(16777217)
    /\ \E p \in DOMAIN out_ds.data :
          /\ mask_array[p] = 1
          /\ p \in covered
          /\ out_ds.data[p] = Float(16777216)
    /\ \E p \in DOMAIN out_ds.data :
          /\ mask_array[p] = 0
          /\ raster_ds.data[p] = 16777219
          /\ out_ds.data[p] = Float(16777220)

OutputComplete ==
    /\ out_ds # <<>>
    /\ out_ds.written
    /\ out_ds.nodata # <<>>
    /\ out_ds.flushed

\* C10: a run that returns has released all four handles; no handle is
\* released before the output band is written, given its no-data value and
\* flushed; a run that a failing step ended holds every handle it opened.
C10_HandlesReleasedAtEnd ==
    /\ pc = "done" => (handles = {} /\ opened = AllHandles)
    /\ handles # opened => OutputComplete
    /\ pc = "failed" => handles = opened

C10_Witness ==
    /\ pc = "done"
    /\ handles = {}
    /\ opened = AllHandles
    /\ OutputComplete

====
